---- MODULE Spec2Model ----
(***************************************************************************)
(* Model of src/app.py: the expense ledger kept in the `expenses` table,   *)
(* the editor reconciliation of save_data, the sidebar add, and the        *)
(* derived views (monthly total, chart views, shared balance).             *)
(*                                                                         *)
(* Modelling notes.                                                        *)
(*  - `db` is the COMMITTED content of the table, in the row order that    *)
(*    "SELECT * FROM expenses" returns (insertion order; a delete removes  *)
(*    a row, an update keeps its place).                                   *)
(*  - `with conn.session as session` opens a transaction of its own; the   *)
(*    statements executed on it stay pending until session.commit() and    *)
(*    are discarded when the block is left by an exception.  load_data()   *)
(*    reads through conn.query, a different connection, so it returns the  *)
(*    committed table and none of the caller's pending statements.         *)
(*  - Amounts are integers.  A quotient amount / total_users is kept as an *)
(*    exact fraction [num, den]; den = 0 records a division by zero.       *)
(*    Floating-point rounding is not modelled.                             *)
(***************************************************************************)
EXTENDS Integers, Sequences, FiniteSets, TLC

\* ------------------------------------------------------------------ bounds
MaxViewRows == 2      \* ledger length drawn by ViewInit
MaxUsers == 3         \* largest len(st.secrets["passwords"]) drawn
MaxId == 2            \* ids the SERIAL sequence hands out before inserts stop

Users == {"alice", "bob"}
CurrentMonth == "2026-11"
Months == {CurrentMonth, "2026-10"}
Tags == {"Mercado"}

VARIABLES
  db,            \* committed rows of table expenses, in SELECT order
  nextId,        \* next value of the SERIAL sequence behind expenses.id
  total_secrets, \* len(st.secrets["passwords"])
  shown,         \* the views rendered by the last pass through main()
  pc,            \* per session: "idle", the place reached in save_data, or
                 \* "done" (script run over, st.rerun() or a new run pending)
  view,          \* per session: ids of main's user_df, as the data editor
                 \* of the running script shows them
  editor,        \* per session: st.session_state.expense_data_editor
  executed,      \* per session: statements executed on `session`, in order
  idx,           \* per session: index of the next entry of the running loop
  edit_df,       \* per session: ids of the df loaded before the edit loop
  msgs,          \* per session: st.success/st.error messages of the last call
  base,          \* per session: ids of the committed table, in order, when
                 \* save_data was entered
  foreign        \* per session: another session committed since then

vars == <<db, nextId, total_secrets, shown, pc, view, editor, executed, idx,
          edit_df, msgs, base, foreign>>
sessvars == <<nextId, pc, view, editor, executed, idx, edit_df, msgs, base, foreign>>

\* ------------------------------------------------------- exact fractions
Frac(a, b) == [num |-> a, den |-> b]
FAdd(x, y) == IF x.den = y.den THEN Frac(x.num + y.num, x.den)
              ELSE Frac(x.num * y.den + y.num * x.den, x.den * y.den)
FSub(x, y) == FAdd(x, Frac(0 - y.num, y.den))
FEq(x, y) == x.den # 0 /\ y.den # 0 /\ x.num * y.den = y.num * x.den
FPos(x) == x.den > 0 /\ x.num > 0
FZero == Frac(0, 1)

\* ----------------------------------------------------- dataframe helpers
\* df[mask], the rows satisfying a mask in order, is SelectSeq(df, Mask)

\* df["valor"].sum() over a column of exact values
RECURSIVE SumValor(_)
SumValor(df) ==
  IF df = <<>> THEN FZero ELSE FAdd(Head(df).valor, SumValor(Tail(df)))

IsShared(r) == r.compartilhado = TRUE
InCurrentMonth(r) == r.data = CurrentMonth

\* load_data returns valor as a float column: integer amount a is a/1
AsFloat(r) == [r EXCEPT !.valor = Frac(r.valor, 1)]
load_frame(rows) == [i \in 1..Len(rows) |-> AsFloat(rows[i])]

\* main: user_df = df[(usuario == username) | (compartilhado == True)]
user_filter(df, username) ==
  LET Keep(r) == r.usuario = username \/ IsShared(r) IN SelectSeq(df, Keep)

\* x / total_users on a float: a zero divisor is kept as den = 0
Divide(x, n) == Frac(x.num, x.den * n)

\* len(st.secrets["passwords"]) if ... > 0 else 1
guarded_users(n) == IF n > 0 THEN n ELSE 1

\* ------------------------------------------------------- display_metrics
\* display_metrics without the compartilhado == False filter on user_total
display_metrics_all_own(df, username, n) ==
  LET monthly_df == SelectSeq(df, InCurrentMonth)
      Mine(r) == r.usuario = username
      user_expenses == SelectSeq(monthly_df, Mine)
      shared_expenses == SelectSeq(monthly_df, IsShared)
      total_users == guarded_users(n)
  IN [total_expenditure |-> FAdd(SumValor(user_expenses),
                                 Divide(SumValor(shared_expenses), total_users)),
      divisor |-> total_users]

display_metrics(df, username, n) ==
  LET monthly_df == SelectSeq(df, InCurrentMonth)
      Mine(r) == r.usuario = username
      NotShared(r) == r.compartilhado = FALSE
      user_expenses == SelectSeq(monthly_df, Mine)
      shared_expenses == SelectSeq(monthly_df, IsShared)
      user_total == SumValor(SelectSeq(user_expenses, NotShared))
      total_users == guarded_users(n)
      shared_total == Divide(SumValor(shared_expenses), total_users)
  IN [total_expenditure |-> FAdd(user_total, shared_total),
      divisor |-> total_users]

\* -------------------------------------------------------- display_charts
\* the chart frame left unadjusted
adjust_row_unsplit(r, total_users) == r

adjust_row(r, total_users) ==
  IF IsShared(r) THEN [r EXCEPT !.valor = Divide(r.valor, total_users)] ELSE r

display_charts(df, username, n) ==
  LET total_users == guarded_users(n)
      df_adjusted == [i \in 1..Len(df) |-> adjust_row(df[i], total_users)]
      user_df_adjusted == user_filter(df_adjusted, username)
      InMonth(m) == LET K(r) == r.data = m IN SelectSeq(user_df_adjusted, K)
      months == {user_df_adjusted[i].data : i \in 1..Len(user_df_adjusted)}
      monthly_df_adjusted == SelectSeq(user_df_adjusted, InCurrentMonth)
  IN [expenses_by_month |-> [m \in months |-> SumValor(InMonth(m))],
      pie_monthly |-> [i \in 1..Len(monthly_df_adjusted) |->
                         [tag |-> monthly_df_adjusted[i].tag,
                          valor |-> monthly_df_adjusted[i].valor]],
      pie_total |-> [i \in 1..Len(user_df_adjusted) |->
                         [tag |-> user_df_adjusted[i].tag,
                          valor |-> user_df_adjusted[i].valor]],
      divisor |-> total_users]

\* ----------------------------------------------- display_shared_expenses
\* display_shared_expenses with the balance taken as share minus paid
display_shared_expenses_flipped(df, username, n) ==
  LET shared_df == SelectSeq(df, IsShared)
      Mine(r) == r.usuario = username
      total_shared_expenses == SumValor(shared_df)
      user_total == SumValor(SelectSeq(shared_df, Mine))
      balance == IF n > 0
                 THEN FSub(Divide(total_shared_expenses, n), user_total)
                 ELSE FZero
  IN IF shared_df = <<>>
     THEN [empty |-> TRUE]
     ELSE [empty |-> FALSE,
           total_shared_expenses |-> total_shared_expenses,
           sua_parte |-> Divide(total_shared_expenses, n),
           balance |-> balance,
           label |-> IF FPos(balance) THEN "Voce deve receber"
                     ELSE "Voce deve pagar"]

display_shared_expenses(df, username, n) ==
  LET shared_df == SelectSeq(df, IsShared)
      Mine(r) == r.usuario = username
      total_shared_expenses == SumValor(shared_df)
      user_total == SumValor(SelectSeq(shared_df, Mine))
      total_users == n
      balance == IF total_users > 0
                 THEN FSub(user_total, Divide(total_shared_expenses, total_users))
                 ELSE FZero
  IN IF shared_df = <<>>
     THEN [empty |-> TRUE]
     ELSE [empty |-> FALSE,
           total_shared_expenses |-> total_shared_expenses,
           sua_parte |-> Divide(total_shared_expenses, total_users),
           balance |-> balance,
           label |-> IF FPos(balance) THEN "Voce deve receber"
                     ELSE "Voce deve pagar"]

\* ------------------------------------------------- main, the read path
\* one pass of main() for the logged-in user: load, filter, render views
main_views(rows, username, n) ==
  LET df == load_frame(rows)
      user_df == user_filter(df, username)
  IN [username |-> username,
      metrics |-> display_metrics(user_df, username, n),
      charts |-> display_charts(user_df, username, n),
      shared |-> display_shared_expenses(df, username, n)]

\* ---------------------------------------------- specification of views
Amounts == {0 - 1, 2, 3}
RowBodies ==
  [nome : {"x"}, tag : Tags, data : Months, valor : Amounts,
   compartilhado : BOOLEAN, usuario : Users]
WithIds(bodies) ==
  [i \in 1..Len(bodies) |->
     [id |-> i, nome |-> bodies[i].nome, tag |-> bodies[i].tag,
      data |-> bodies[i].data, valor |-> bodies[i].valor,
      compartilhado |-> bodies[i].compartilhado, usuario |-> bodies[i].usuario]]
Ledgers == UNION {{WithIds(b) : b \in [1..k -> RowBodies]} : k \in 0..MaxViewRows}

NotRendered == [username |-> "none"]


\* ===================================================== the write path
\* ------------------------------------------------------ editor inputs
GoodRow == [nome |-> "x", tag |-> "Mercado", data |-> CurrentMonth, valor |-> 2,
            compartilhado |-> FALSE]
BadRow == [nome |-> "", tag |-> "Mercado", data |-> CurrentMonth, valor |-> 0,
           compartilhado |-> FALSE, usuario |-> ""]
PartialRow == [nome |-> "x"]
EditValor == [row_index |-> 1, changes |-> [valor |-> 5]]
Edits(e, a, d) == [edited_rows |-> e, added_rows |-> a, deleted_rows |-> d]
EmptyEdits == Edits(<<>>, <<>>, <<>>)
EditSets ==
  {EmptyEdits,
   Edits(<<>>, <<>>, <<0>>), Edits(<<>>, <<>>, <<0, 1>>),
   Edits(<<>>, <<GoodRow>>, <<>>), Edits(<<>>, <<BadRow>>, <<>>),
   Edits(<<>>, <<PartialRow>>, <<>>),
   Edits(<<EditValor>>, <<>>, <<0>>)}

InSave == {"del", "add", "edit_load", "edit", "commit"}
InsertBinds == {"nome", "tag", "data", "valor", "compartilhado", "usuario"}

SessionInit ==
  /\ pc = [u \in Users |-> "idle"]
  /\ view = [u \in Users |-> <<>>]
  /\ editor = [u \in Users |-> EmptyEdits]
  /\ executed = [u \in Users |-> <<>>]
  /\ idx = [u \in Users |-> 1]
  /\ edit_df = [u \in Users |-> <<>>]
  /\ msgs = [u \in Users |-> <<>>]
  /\ base = [u \in Users |-> <<>>]
  /\ foreign = [u \in Users |-> FALSE]

Ids(rows) == [k \in 1..Len(rows) |-> rows[k].id]

\* ------------------------------------------------ effect of statements
Merge(row, params) ==
  [k \in DOMAIN row |-> IF k \in DOMAIN params THEN params[k] ELSE row[k]]

ApplyOne(rows, st) ==
  CASE st.op = "DELETE" -> LET Keep(r) == r.id # st.id IN SelectSeq(rows, Keep)
    [] st.op = "INSERT" -> Append(rows, st.row)
    [] st.op = "UPDATE" ->
         [k \in 1..Len(rows) |->
            IF rows[k].id = st.id THEN Merge(rows[k], st.params) ELSE rows[k]]

RECURSIVE ApplyAll(_, _)
ApplyAll(rows, sts) ==
  IF sts = <<>> THEN rows ELSE ApplyAll(ApplyOne(rows, Head(sts)), Tail(sts))

\* load_data read as if it ran on the caller's own session
load_data_own_session(rows, mine) == ApplyAll(rows, mine)

\* load_data: SELECT * FROM expenses through conn.query, i.e. the committed
\* table; `mine` (the caller's own pending statements) is not visible to it
load_data(rows, mine) == rows

\* the three .get(...) reads of the editor state
edited_rows_of(es) == es.edited_rows
\* added_rows taking the editor's blank trailing row for an added one
added_rows_with_blank(es) == es.added_rows \o <<GoodRow>>
added_rows_of(es) == es.added_rows
deleted_rows_of(es) == es.deleted_rows

\* session.execute committing on its own
session_execute_autocommit(rows, st) == ApplyOne(rows, st)

\* session.execute(...): the statement is pending on the open session; the
\* committed table is as it was
session_execute(rows, st) == rows

\* session.commit(): the pending statements take effect together
commit_rows(rows, sts) == ApplyAll(rows, sts)

\* a DELETE or UPDATE waits while another open transaction holds the row
RowLocked(u, id) ==
  \E o \in Users \ {u} :
    /\ pc[o] \in InSave
    /\ \E k \in 1..Len(executed[o]) :
         executed[o][k].op \in {"DELETE", "UPDATE"} /\ executed[o][k].id = id

\* another session's commit is seen by every session that is inside save_data
NoteCommit(u, changed) ==
  foreign' = [o \in Users |->
                IF o # u /\ changed /\ pc[o] \in InSave THEN TRUE ELSE foreign[o]]

Success(text, n) == [kind |-> "success", text |-> text, n |-> n]

\* where save_data goes after the phase `after`
NextPhase(es, after) ==
  IF after = "start" /\ Len(deleted_rows_of(es)) > 0 THEN "del"
  ELSE IF after \in {"start", "del"} /\ Len(added_rows_of(es)) > 0 THEN "add"
  ELSE IF after \in {"start", "del", "add"} /\ Len(edited_rows_of(es)) > 0
       THEN "edit_load"
  ELSE "commit"

\* ------------------------------------------------------ display_sidebar
sidebar_valid(nome, valor) == nome # "" /\ valor > 0

display_sidebar(u, nome, valor, compartilhado) ==
  /\ pc[u] = "idle"
  /\ nextId <= MaxId
  /\ IF sidebar_valid(nome, valor)
     THEN /\ db' = Append(db, [id |-> nextId, nome |-> nome, tag |-> "Mercado",
                               data |-> CurrentMonth, valor |-> valor,
                               compartilhado |-> compartilhado, usuario |-> u])
          /\ nextId' = nextId + 1
          /\ msgs' = [msgs EXCEPT ![u] = <<Success("Despesa adicionada!", 1)>>]
          /\ NoteCommit(u, TRUE)
     ELSE /\ msgs' = [msgs EXCEPT ![u] = <<>>]
          /\ UNCHANGED <<db, nextId, foreign>>
  /\ pc' = [pc EXCEPT ![u] = "done"]
  /\ UNCHANGED <<total_secrets, shown, view, editor, executed, idx, edit_df, base>>

\* positions the displayed editor can produce: rows of the rendered view
Positions(es) ==
  {es.deleted_rows[k] : k \in 1..Len(es.deleted_rows)}
    \cup {es.edited_rows[k].row_index : k \in 1..Len(es.edited_rows)}
Producible(es, shownIds) == \A p \in Positions(es) : p < Len(shownIds)

\* ------------------------------------------- main: load, filter, editor
\* main's user_df: the rows the data editor shows to `username`
displayed(rows, username) == Ids(user_filter(load_data(rows, <<>>), username))

\* the script run that follows st.rerun() or an exception: it only renders
main(u) ==
  /\ pc[u] = "done"
  /\ pc' = [pc EXCEPT ![u] = "idle"]
  /\ msgs' = [msgs EXCEPT ![u] = <<>>]
  /\ view' = [view EXCEPT ![u] = <<>>]
  /\ editor' = [editor EXCEPT ![u] = EmptyEdits]
  /\ executed' = [executed EXCEPT ![u] = <<>>]
  /\ idx' = [idx EXCEPT ![u] = 1]
  /\ edit_df' = [edit_df EXCEPT ![u] = <<>>]
  /\ base' = [base EXCEPT ![u] = <<>>]
  /\ foreign' = [foreign EXCEPT ![u] = FALSE]
  /\ UNCHANGED <<db, nextId, total_secrets, shown>>

\* ------------------------------------------------------------ save_data
\* the script run of "Salvar Alteracoes": main loads and shows user_df, the
\* editor state holds the edits `es` made on the shown rows, save_data starts
save_data_begin(u, es) ==
  /\ pc[u] = "idle"
  /\ view' = [view EXCEPT ![u] = displayed(db, u)]
  /\ Producible(es, view'[u])
  /\ editor' = [editor EXCEPT ![u] = es]
  /\ executed' = [executed EXCEPT ![u] = <<>>]
  /\ msgs' = [msgs EXCEPT ![u] = <<>>]
  /\ idx' = [idx EXCEPT ![u] = 1]
  /\ edit_df' = [edit_df EXCEPT ![u] = <<>>]
  /\ base' = [base EXCEPT ![u] = Ids(db)]
  /\ foreign' = [foreign EXCEPT ![u] = FALSE]
  /\ pc' = [pc EXCEPT ![u] = NextPhase(es, "start")]
  /\ UNCHANGED <<db, nextId, total_secrets, shown>>

\* leaving the loop of phase `ph`: its st.success, then the next phase
EndLoop(u, ph, text, n) ==
  /\ msgs' = [msgs EXCEPT ![u] = Append(@, Success(text, n))]
  /\ pc' = [pc EXCEPT ![u] = NextPhase(editor[u], ph)]
  /\ idx' = [idx EXCEPT ![u] = 1]

\* one iteration of "for row_index in deleted_rows"
save_data_delete(u) ==
  /\ pc[u] = "del"
  /\ LET deleted_rows == deleted_rows_of(editor[u])
         row_index == deleted_rows[idx[u]]
         df == load_data(db, executed[u])
         hit == row_index < Len(df)
         row_id == df[row_index + 1].id
         st == [op |-> "DELETE", id |-> row_id, row_index |-> row_index]
     IN /\ hit => ~RowLocked(u, row_id)
        /\ executed' = [executed EXCEPT ![u] = IF hit THEN Append(@, st) ELSE @]
        /\ db' = IF hit THEN session_execute(db, st) ELSE db
        /\ IF idx[u] = Len(deleted_rows)
           THEN EndLoop(u, "del", "deletada", Len(deleted_rows))
           ELSE /\ idx' = [idx EXCEPT ![u] = @ + 1]
                /\ UNCHANGED <<pc, msgs>>
  /\ UNCHANGED <<nextId, total_secrets, shown, view, editor, edit_df, base, foreign>>

\* an exception leaves the with-block: the session is closed and nothing of
\* it commits; the script run stops with the exception on screen
on_exception(rows, sts) == rows

Abort(u) ==
  /\ db' = on_exception(db, executed[u])
  /\ pc' = [pc EXCEPT ![u] = "done"]
  /\ msgs' = [msgs EXCEPT ![u] = <<[kind |-> "exception", text |-> "", n |-> 0]>>]
  /\ view' = [view EXCEPT ![u] = <<>>]
  /\ editor' = [editor EXCEPT ![u] = EmptyEdits]
  /\ idx' = [idx EXCEPT ![u] = 1]
  /\ edit_df' = [edit_df EXCEPT ![u] = <<>>]
  /\ base' = [base EXCEPT ![u] = <<>>]
  /\ foreign' = [foreign EXCEPT ![u] = FALSE]
  /\ UNCHANGED <<total_secrets, shown, executed>>

\* row_data as bound to the INSERT: usuario defaulted, id removed
clean_row(row_data, username) ==
  LET owned == IF "usuario" \notin DOMAIN row_data \/ row_data.usuario = ""
               THEN [k \in DOMAIN row_data \cup {"usuario"} |->
                       IF k = "usuario" THEN username ELSE row_data[k]]
               ELSE row_data
  IN [k \in DOMAIN owned \ {"id"} |-> owned[k]]

\* one iteration of "for row_data in added_rows"
save_data_add(u) ==
  /\ pc[u] = "add"
  /\ LET added_rows == added_rows_of(editor[u])
         clean_row_data == clean_row(added_rows[idx[u]], u)
         st == [op |-> "INSERT",
                row |-> [k \in InsertBinds \cup {"id"} |->
                           IF k = "id" THEN nextId ELSE clean_row_data[k]]]
     IN IF InsertBinds \subseteq DOMAIN clean_row_data
        THEN /\ nextId <= MaxId
             /\ nextId' = nextId + 1
             /\ executed' = [executed EXCEPT ![u] = Append(@, st)]
             /\ db' = session_execute(db, st)
             /\ IF idx[u] = Len(added_rows)
                THEN EndLoop(u, "add", "adicionada", Len(added_rows))
                ELSE /\ idx' = [idx EXCEPT ![u] = @ + 1]
                     /\ UNCHANGED <<pc, msgs>>
             /\ UNCHANGED <<total_secrets, shown, view, editor, edit_df,
                            base, foreign>>
        ELSE \* a bind parameter is missing: session.execute raises
             Abort(u) /\ UNCHANGED nextId

\* df = load_data() before "for row_index, changes in edited_rows.items()"
save_data_edit_load(u) ==
  /\ pc[u] = "edit_load"
  /\ edit_df' = [edit_df EXCEPT ![u] = Ids(load_data(db, executed[u]))]
  /\ pc' = [pc EXCEPT ![u] = "edit"]
  /\ UNCHANGED <<db, nextId, total_secrets, shown, view, editor, executed, idx,
                 msgs, base, foreign>>

\* one iteration of the edit loop
save_data_edit(u) ==
  /\ pc[u] = "edit"
  /\ LET edited_rows == edited_rows_of(editor[u])
         row_index == edited_rows[idx[u]].row_index
         changes == edited_rows[idx[u]].changes
         hit == row_index < Len(edit_df[u])
         row_id == edit_df[u][row_index + 1]
         params == [k \in DOMAIN changes \ {"id"} |-> changes[k]]
         issue == hit /\ DOMAIN params # {}
         st == [op |-> "UPDATE", id |-> row_id, row_index |-> row_index,
                params |-> params]
     IN /\ issue => ~RowLocked(u, row_id)
        /\ executed' = [executed EXCEPT ![u] = IF issue THEN Append(@, st) ELSE @]
        /\ db' = IF issue THEN session_execute(db, st) ELSE db
        /\ IF idx[u] = Len(edited_rows)
           THEN EndLoop(u, "edit", "editada", Len(edited_rows))
           ELSE /\ idx' = [idx EXCEPT ![u] = @ + 1]
                /\ UNCHANGED <<pc, msgs>>
  /\ UNCHANGED <<nextId, total_secrets, shown, view, editor, edit_df, base, foreign>>

\* session.commit(), then main's "Dados salvos com sucesso!"
save_data_commit(u) ==
  /\ pc[u] = "commit"
  /\ db' = commit_rows(db, executed[u])
  /\ msgs' = [msgs EXCEPT ![u] = Append(@, Success("Dados salvos com sucesso!", 0))]
  /\ pc' = [pc EXCEPT ![u] = "done"]
  /\ view' = [view EXCEPT ![u] = <<>>]
  /\ editor' = [editor EXCEPT ![u] = EmptyEdits]
  /\ executed' = [executed EXCEPT ![u] = <<>>]
  /\ idx' = [idx EXCEPT ![u] = 1]
  /\ edit_df' = [edit_df EXCEPT ![u] = <<>>]
  /\ base' = [base EXCEPT ![u] = <<>>]
  /\ foreign' = [o \in Users |->
        IF o = u THEN FALSE
        ELSE IF db' # db /\ pc[o] \in InSave THEN TRUE ELSE foreign[o]]
  /\ UNCHANGED <<nextId, total_secrets, shown>>

\* a store call (load_data, session.execute, session.commit) raises
store_failure(u) ==
  /\ pc[u] \in InSave
  /\ Abort(u)
  /\ UNCHANGED nextId

\* ----------------------------------------------------- sidebar inputs
SidebarInputs ==
  {[nome |-> "x", valor |-> 2, compartilhado |-> FALSE],
   [nome |-> "x", valor |-> 2, compartilhado |-> TRUE],
   [nome |-> "", valor |-> 2, compartilhado |-> FALSE],
   [nome |-> "x", valor |-> 0, compartilhado |-> FALSE]}

Init ==
  /\ db = <<>>
  /\ nextId = 1
  /\ total_secrets = Cardinality(Users)
  /\ shown = NotRendered
  /\ SessionInit

Next ==
  \E u \in Users :
    \/ main(u)
    \/ \E inp \in SidebarInputs :
         display_sidebar(u, inp.nome, inp.valor, inp.compartilhado)
    \/ \E es \in EditSets : save_data_begin(u, es)
    \/ save_data_delete(u)
    \/ save_data_add(u)
    \/ save_data_edit_load(u)
    \/ save_data_edit(u)
    \/ save_data_commit(u)
    \/ store_failure(u)

Spec == Init /\ [][Next]_vars


ViewInit ==
  /\ db \in Ledgers
  /\ nextId = Len(db) + 1
  /\ total_secrets \in 0..MaxUsers
  /\ shown = NotRendered
  /\ SessionInit

main_read(u) ==
  /\ shown' = main_views(db, u, total_secrets)
  /\ UNCHANGED <<db, total_secrets>>
  /\ UNCHANGED sessvars

ViewNext == \E u \in Users : main_read(u)

ViewSpec == ViewInit /\ [][ViewNext]_vars

\* ================================================================ claims
\* sums over the raw table, by index set
RECURSIVE SumAmounts(_, _)
SumAmounts(rows, I) ==
  IF I = {} THEN 0
  ELSE LET k == CHOOSE k \in I : TRUE
       IN rows[k].valor + SumAmounts(rows, I \ {k})

OwnPrivateThisMonth(rows, u) ==
  {k \in 1..Len(rows) : rows[k].data = CurrentMonth
                         /\ ~rows[k].compartilhado /\ rows[k].usuario = u}
SharedThisMonth(rows) ==
  {k \in 1..Len(rows) : rows[k].data = CurrentMonth /\ rows[k].compartilhado}
SharedRows(rows) == {k \in 1..Len(rows) : rows[k].compartilhado}
SharedPaidBy(rows, u) == {k \in SharedRows(rows) : rows[k].usuario = u}
Without(rows, k) == SubSeq(rows, 1, k - 1) \o SubSeq(rows, k + 1, Len(rows))
Rendered == shown.username \in Users

\* C1: no step save_data takes before its commit succeeds changes the
\* committed table, the step that a failing store call ends it with included:
\* the table stays the one save_data found when it started (no other session
\* having committed meanwhile), and no other session sees part of the edits.
Failed(u) == pc[u] = "done" /\ Len(msgs[u]) = 1 /\ msgs[u][1].kind = "exception"
Saved(u) ==
  /\ pc[u] = "done" /\ Len(msgs[u]) >= 1
  /\ msgs[u][Len(msgs[u])].text = "Dados salvos com sucesso!"
OwnStep(u) ==
  <<pc[u], idx[u], executed[u], edit_df[u], msgs[u]>>'
    # <<pc[u], idx[u], executed[u], edit_df[u], msgs[u]>>
C1_AtomicApply ==
  [][\A u \in Users :
       (pc[u] \in InSave /\ OwnStep(u) /\ ~Saved(u)') =>
         /\ db' = db
         /\ ~foreign[u] => Ids(db') = base[u]]_vars
C1_Witness ==
  \E u \in Users :
    /\ Failed(u)
    /\ \E k \in 1..Len(executed[u]) :
         /\ executed[u][k].op = "DELETE"
         /\ \E j \in 1..Len(db) : db[j].id = executed[u][k].id
    /\ \E k \in 1..Len(executed[u]) :
         /\ executed[u][k].op = "UPDATE"
         /\ \E j \in 1..Len(db) :
              db[j].id = executed[u][k].id /\ db[j].valor # executed[u][k].params.valor

\* C2: with no other writer, a DELETE or UPDATE issued for row position p
\* carries the id of the row shown at position p of the user's filtered view.
C2_TargetsDisplayedRow ==
  \A u \in Users :
    (pc[u] \in InSave /\ ~foreign[u]) =>
      \A k \in 1..Len(executed[u]) :
        executed[u][k].op \in {"DELETE", "UPDATE"} =>
          /\ executed[u][k].row_index < Len(view[u])
          /\ executed[u][k].id = view[u][executed[u][k].row_index + 1]

Targets(sts) ==
  LET Aimed(st) == st.op \in {"DELETE", "UPDATE"}
      aimed == SelectSeq(sts, Aimed)
  IN [k \in 1..Len(aimed) |->
        [op |-> aimed[k].op, row_index |-> aimed[k].row_index, id |-> aimed[k].id]]
ExpectedTargets(snap, es) ==
  LET InRange(p) == p < Len(snap)
      EditInRange(e) == e.row_index < Len(snap)
      dels == SelectSeq(es.deleted_rows, InRange)
      upds == SelectSeq(es.edited_rows, EditInRange)
  IN [k \in 1..Len(dels) |->
        [op |-> "DELETE", row_index |-> dels[k], id |-> snap[dels[k] + 1]]]
     \o [k \in 1..Len(upds) |->
        [op |-> "UPDATE", row_index |-> upds[k].row_index,
         id |-> snap[upds[k].row_index + 1]]]

Reported(ms, text) ==
  LET Is(m) == m.kind = "success" /\ m.text = text
      found == SelectSeq(ms, Is)
  IN IF found = <<>> THEN 0 ELSE found[1].n
Issued(sts, op) == LET Is(st) == st.op = op IN Len(SelectSeq(sts, Is))
C4_ReportsIssuedCounts ==
  \A u \in Users :
    pc[u] = "commit" =>
      /\ Reported(msgs[u], "deletada") = Issued(executed[u], "DELETE")
      /\ Reported(msgs[u], "editada") = Issued(executed[u], "UPDATE")

\* C5: a row that enters the table has a name and an amount above zero.
C5_AddPathValidated ==
  [][\A k \in 1..Len(db') :
       (\A j \in 1..Len(db) : db[j].id # db'[k].id) =>
         (db'[k].nome # "" /\ db'[k].valor > 0)]_vars

\* C6: with n >= 1 users the monthly total shown to u is the sum of u's own
\* non-shared rows of the month plus the month's shared rows over n; a
\* non-shared row adds its amount to its owner's total and to nobody else's.
MonthlyTotal(rows, u, n) == main_views(rows, u, n).metrics.total_expenditure
C6_MonthlyTotal ==
  (Rendered /\ total_secrets >= 1) =>
    /\ FEq(shown.metrics.total_expenditure,
           Frac(total_secrets * SumAmounts(db, OwnPrivateThisMonth(db, shown.username))
                  + SumAmounts(db, SharedThisMonth(db)),
                total_secrets))
    /\ \A k \in 1..Len(db) :
         (db[k].data = CurrentMonth /\ ~db[k].compartilhado) =>
           \A u \in Users :
             FEq(MonthlyTotal(db, u, total_secrets),
                 FAdd(MonthlyTotal(Without(db, k), u, total_secrets),
                      Frac(IF u = db[k].usuario THEN db[k].valor ELSE 0, 1)))
C6_Witness ==
  /\ Rendered /\ total_secrets >= 2
  /\ OwnPrivateThisMonth(db, shown.username) # {}
  /\ \E k \in SharedThisMonth(db) : db[k].usuario # shown.username

\* C7: with n >= 1 the values of the current-month per-tag view add up to the
\* monthly total, and so does the current month of the monthly series.
C7_ViewsAgree ==
  (Rendered /\ total_secrets >= 1) =>
    /\ FEq(SumValor(shown.charts.pie_monthly), shown.metrics.total_expenditure)
    /\ IF CurrentMonth \in DOMAIN shown.charts.expenses_by_month
       THEN FEq(shown.charts.expenses_by_month[CurrentMonth],
                shown.metrics.total_expenditure)
       ELSE FEq(shown.metrics.total_expenditure, FZero)
C7_Witness ==
  /\ Rendered /\ total_secrets >= 2
  /\ CurrentMonth \in DOMAIN shown.charts.expenses_by_month
  /\ Len(shown.charts.pie_monthly) = 2
  /\ SharedThisMonth(db) # {} /\ OwnPrivateThisMonth(db, shown.username) # {}

\* C8: with a shared row and n >= 1, net = paid by u - all shared / n; the
\* label is "owed" exactly when net > 0; with two users and A paying all the
\* shared rows, A's net is +total/2 and the other user's is -total/2.
C8_SharedBalance ==
  (Rendered /\ total_secrets >= 1 /\ SharedRows(db) # {}) =>
    LET paid == SumAmounts(db, SharedPaidBy(db, shown.username))
        total == SumAmounts(db, SharedRows(db))
    IN /\ ~shown.shared.empty
       /\ FEq(shown.shared.balance,
              Frac(total_secrets * paid - total, total_secrets))
       /\ (shown.shared.label = "Voce deve receber")
            <=> (total_secrets * paid - total > 0)
       /\ (total_secrets = 2 /\ paid = total) =>
            FEq(shown.shared.balance, Frac(total, 2))
       /\ (total_secrets = 2 /\ paid = 0) =>
            FEq(shown.shared.balance, Frac(0 - total, 2))
C8_Witness ==
  /\ Rendered /\ total_secrets = 2
  /\ Cardinality(SharedRows(db)) = 2
  /\ \E a \in Users \ {shown.username} : SharedPaidBy(db, a) = SharedRows(db)
  /\ shown.shared.label = "Voce deve pagar"
  /\ shown.shared.balance.num < 0

\* C9: with a user count of 0 every shared split divides by 1, in the monthly
\* total, in the charts and in the shared balance with its "Sua parte".
C9_ZeroUsersDivideByOne ==
  (Rendered /\ total_secrets = 0) =>
    /\ shown.metrics.divisor = 1
    /\ shown.charts.divisor = 1
    /\ ~shown.shared.empty =>
         /\ FEq(shown.shared.sua_parte, shown.shared.total_shared_expenses)
         /\ FEq(shown.shared.balance,
                Frac(SumAmounts(db, SharedPaidBy(db, shown.username))
                       - SumAmounts(db, SharedRows(db)), 1))

\* C10: save_data on an empty edit-set leaves the table as it is and reports
\* no row added, edited or deleted.
EmptySaveStep(u) ==
  \/ pc[u] = "idle" /\ pc'[u] \in InSave /\ editor'[u] = EmptyEdits
  \/ pc[u] = "commit" /\ editor[u] = EmptyEdits /\ pc'[u] = "done" /\ ~Failed(u)'
NoCounts(ms) ==
  /\ Reported(ms, "deletada") = 0
  /\ Reported(ms, "adicionada") = 0
  /\ Reported(ms, "editada") = 0
C10_EmptyEditSetIsNoOp ==
  [][\A u \in Users :
       EmptySaveStep(u) =>
         /\ db' = db
         /\ pc'[u] \in {"commit", "done"}
         /\ NoCounts(msgs'[u])]_vars
C10_Witness ==
  \E u \in Users :
    /\ pc[u] = "done" /\ db # <<>>
    /\ msgs[u] = <<Success("Dados salvos com sucesso!", 0)>>
====
